---- MODULE Spec2Model ----
(***************************************************************************)
(* A model of rar-hunter's concurrency core: the event bus                 *)
(* (src/eventbus/core.go), the process runner DoAll with a Target's        *)
(* process and pipes, the manifest check anyMissing (src/unnamed/part_000) *)
(* and FindUnrarable (src/rary/core.go).  Every goroutine is a process of  *)
(* the model, and every section of code that runs under the bus's mutex,   *)
(* or that touches shared state once, is one atomic step.  A panic ends    *)
(* the Go process, so once panic is set no step is taken any more.         *)
(***************************************************************************)
EXTENDS Integers, Sequences, FiniteSets, TLC

\* ------------------------------------------------------------------ bounds
MaxQueues == 2        \* job queues a bus allocates (Starts that take effect)
MaxStops == 2         \* Stop calls per behaviour (they may overlap)
MaxCloses == 2        \* Subscription.Close calls that may overlap
NumIds == 2           \* size of the space rand.Int() draws subscriber ids from
LifeStartCalls == 2   \* SpecLife: Start calls
LifePublish == 2      \* SpecLife: Publish calls
DeliverSubs == 2      \* SpecDeliver: subscribers (K)
DeliverPublish == 2   \* SpecDeliver: Publish calls (N)
UnsubSubs == 2        \* SpecUnsub: subscribers
UnsubPublish == 1     \* SpecUnsub: Publish calls
FullExtra == 3        \* SpecFull: Publish calls beyond the queue capacity
MaxTargets == 2       \* SpecDoAll: Targets passed to DoAll (M)
IdemSubs == 2         \* SpecIdem: subscribers
IdemCloses == 1       \* SpecIdem: Close calls that may overlap
SnapSubs == 2         \* SpecSnap: subscribers
SnapPublish == 1      \* SpecSnap: Publish calls
ErrSubs == 2          \* SpecErr: subscribers
ErrPublish == 2       \* SpecErr: Publish calls
RacePublish == 2      \* SpecRace: Publish calls
NumNames == 3         \* SpecMissing: file names a manifest or a directory may hold

CancelSubs == 2       \* SpecCancel: subscribers
CancelPublish == 2    \* SpecCancel: Publish calls

ReentSubs == 2        \* SpecReent: subscribers
ReentPublish == 2     \* SpecReent: Publish calls

PipeCap == 2          \* SpecPipe: bytes an OS pipe buffers before a write blocks
MaxWrites == 5        \* SpecPipe: bytes the process writes in all

RestartStarts == 2    \* SpecRestart: Start calls
RestartPublish == 2   \* SpecRestart: Publish calls

\* ------------------------------------------------------- program constants
QueueCap == 100       \* make(chan *job, 100)

Kinds == {"X", "Y"}
NoJob == "none"
NilJob == "nil"

VARIABLES
    running,      \* EventBus.running
    cancelled,    \* EventBus.ctx is done
    jobQueue,     \* EventBus.jobQueue: 0 is the nil channel, else an index of queues
    queues,       \* the channels allocated so far: [buf, closed]
    worker,       \* worker[g] is the goroutine reading queues[g]
    wg,           \* EventBus.wg counter
    subscribers,  \* EventBus.subscribers: kind -> sequence of subscriber handles
    subs,         \* the Subscriber values created so far: [id, eventType]
    tasks,        \* publish goroutines not finished: tasks[k][q], q = 0 not yet at the send
    pubs,         \* pubs[k]: Publish calls past their checks, before wg.Add, holding the read lock
    stops,        \* Stop calls: [pc, waiter, noop, timedOut]
    closes,       \* Close calls in flight: [pc, sub, snap]
    invoked,      \* invoked[h]: how often subscriber h's handler was entered
    panic,        \* NoPanic, or the panic the process died of
    hist,         \* what the callers have done so far (see NoHist)
    doall,        \* DoAll's own goroutine: [pc, i, count, errors, ret]
    rtask,        \* DoAll's per-target goroutines: [pc, err, failed]
    results,      \* what DoAll's collector has received from resultCh
    scan,         \* an anyMissing call: [pc, sfv, dir, todo, missing]
    pipe,         \* one Target's process and its two pipes: [pc, buf, script, exited]
    find          \* a FindUnrarable call: [pc, dir, items, inner, parseOk, ret]

busVars == <<running, cancelled, jobQueue, queues, worker, wg, subscribers, subs,
             tasks, pubs, stops, closes, invoked, panic, hist>>

runVars == <<doall, rtask, results, scan, pipe, find>>

vars == <<busVars, runVars>>

\* ----------------------------------------------------------------- helpers
NoPanic == "none"

Handles == 1..Len(subs)
QueueIds == 1..Len(queues)

Range(s) == {s[i] : i \in 1..Len(s)}

\* A delete that finds no subscriber of the id and takes the last one instead.
DeleteFuncOrLast(s, id) ==
    IF \E i \in 1..Len(s) : subs[s[i]].id = id
    THEN SelectSeq(s, LAMBDA h : subs[h].id # id)
    ELSE SubSeq(s, 1, Len(s) - 1)

\* slices.DeleteFunc(subs, func(v) bool { return sub.id == v.id })
DeleteFunc(s, id) == SelectSeq(s, LAMBDA h : subs[h].id # id)

\* getSubscribers returning the subscribers of every kind.
getSubscribersAnyKind(t) == subscribers["X"] \o subscribers["Y"]

\* getSubscribers: a clone of the registry entry, taken under the read lock
getSubscribers(t) == subscribers[t]

\* The worker holding the read lock of getSubscribers for all of handleJob.
NoReaderNorDispatch ==
    /\ \A k \in Kinds : pubs[k] = 0
    /\ \A g \in QueueIds : worker[g].pc \notin {"loop", "invoke", "handler"}

\* bus.mu is read-locked by nobody, so that Lock() can be taken: no Publish
\* call is between its checks and its wg.Add (getSubscribers, the other
\* reader, has unlocked before it returns).
NoReader == \A k \in Kinds : pubs[k] = 0

\* A worker at its select.  subs is handleJob's slice and err its `err`: the
\* handlers whose errors have been joined so far (a ctx.Err() joined by
\* invokeHandler is no handler's error and is left out).  snap (the registry
\* entry when the job's snapshot was taken), called (the handlers entered for
\* the job, in order), failed (those that returned an error) and late are
\* kept for the record only.
IdleWorker == [pc |-> "select", job |-> NoJob, subs |-> <<>>, i |-> 0,
               late |-> {}, deadline |-> FALSE, snap |-> <<>>, called |-> <<>>,
               err |-> <<>>, failed |-> <<>>]

NewStop == [pc |-> "idle", waiter |-> "none", noop |-> FALSE, timedOut |-> FALSE]

NewClose == [pc |-> "idle", sub |-> 0, snap |-> <<>>]

\* A Stop call that found the bus running has returned.
StopReturned == \E i \in 1..MaxStops : stops[i].pc = "returned" /\ ~stops[i].noop

\* What the callers have done: the calls made, the Publish calls that
\* started a publish goroutine, the handles whose Close has returned, and
\* whether the cases the contract names have occurred.  lastClose is the
\* handle whose Close was the last operation to write the registry (0 if the
\* last write was a Subscribe), fresh the Close calls whose snapshot is still
\* the registry (no write since they read it), reclosed whether a Close has
\* returned that ran wholly while its own handle was lastClose.  errs counts
\* the errors handlers have returned, logged those that were part of an
\* aggregate run has printed.
NoHist == [startCalls |-> 0, pubCalls |-> 0, published |-> [k \in Kinds |-> 0],
           closed |-> {}, startOnRunning |-> FALSE, pubUnstarted |-> FALSE,
           pubStopped |-> FALSE, expired |-> FALSE,
           lastClose |-> 0, fresh |-> {}, reclosed |-> FALSE,
           errs |-> 0, logged |-> 0]

\* New(ctx)
InitBus ==
    /\ running = FALSE
    /\ cancelled = FALSE
    /\ jobQueue = 0
    /\ queues = <<>>
    /\ worker = <<>>
    /\ wg = 0
    /\ subscribers = [k \in Kinds |-> <<>>]
    /\ subs = <<>>
    /\ tasks = [k \in Kinds |-> [q \in 0..MaxQueues |-> 0]]
    /\ pubs = [k \in Kinds |-> 0]
    /\ stops = [i \in 1..MaxStops |-> NewStop]
    /\ closes = [c \in 1..MaxCloses |-> NewClose]
    /\ invoked = <<>>
    /\ panic = NoPanic
    /\ hist = NoHist

\* New(ctx) derives the bus context from ctx with context.WithCancel: when
\* the caller's ctx is cancelled, the bus context is done, with no Stop call.
ParentCancel ==
    /\ panic = NoPanic
    /\ ~cancelled
    /\ cancelled' = TRUE
    /\ UNCHANGED <<running, jobQueue, queues, worker, wg, subscribers, subs, tasks,
                   stops, closes, invoked, panic, hist>>
    /\ UNCHANGED <<pubs, runVars>>

\* Start without its `if e.running { return }`.
StartNoCheck ==
    /\ panic = NoPanic
    /\ hist' = [hist EXCEPT !.startCalls = @ + 1,
                            !.startOnRunning = @ \/ running]
    /\ Len(queues) < MaxQueues
    /\ queues' = Append(queues, [buf |-> <<>>, closed |-> FALSE])
    /\ jobQueue' = Len(queues) + 1
    /\ worker' = Append(worker, IdleWorker)
    /\ wg' = wg + 1
    /\ running' = TRUE
    /\ UNCHANGED <<cancelled, subscribers, subs, tasks, stops, closes, invoked, panic>>
    /\ UNCHANGED <<pubs, runVars>>

\* Start deriving a new context for the bus it starts again.
StartNewContext ==
    /\ panic = NoPanic
    /\ NoReader
    /\ hist' = [hist EXCEPT !.startCalls = @ + 1,
                            !.startOnRunning = @ \/ running]
    /\ IF running
       THEN UNCHANGED <<running, cancelled, jobQueue, queues, worker, wg>>
       ELSE /\ Len(queues) < MaxQueues
            /\ queues' = Append(queues, [buf |-> <<>>, closed |-> FALSE])
            /\ jobQueue' = Len(queues) + 1
            /\ worker' = Append(worker, IdleWorker)
            /\ wg' = wg + 1
            /\ running' = TRUE
            /\ cancelled' = FALSE
    /\ UNCHANGED <<subscribers, subs, tasks, stops, closes, invoked, panic>>
    /\ UNCHANGED <<pubs, runVars>>

\* ------------------------------------------------------------------- Start
\* Start on a running bus returns at once; otherwise it allocates the queue,
\* starts the one worker (wg.Add(1)) and sets running, all under the lock.
Start ==
    /\ panic = NoPanic
    /\ NoReader
    /\ hist' = [hist EXCEPT !.startCalls = @ + 1,
                            !.startOnRunning = @ \/ running]
    /\ IF running
       THEN UNCHANGED <<running, jobQueue, queues, worker, wg>>
       ELSE /\ Len(queues) < MaxQueues
            /\ queues' = Append(queues, [buf |-> <<>>, closed |-> FALSE])
            /\ jobQueue' = Len(queues) + 1
            /\ worker' = Append(worker, IdleWorker)
            /\ wg' = wg + 1
            /\ running' = TRUE
    /\ UNCHANGED <<cancelled, subscribers, subs, tasks, stops, closes, invoked, panic>>
    /\ UNCHANGED <<pubs, runVars>>

\* --------------------------------------------------------------- Subscribe
\* id is rand.Int(); the subscriber is appended under the lock.
Subscribe(k, id) ==
    /\ panic = NoPanic
    /\ NoReader
    /\ subs' = Append(subs, [id |-> id, eventType |-> k])
    /\ invoked' = Append(invoked, 0)
    /\ subscribers' = [subscribers EXCEPT ![k] = Append(@, Len(subs) + 1)]
    /\ hist' = [hist EXCEPT !.lastClose = 0, !.fresh = {}]
    /\ UNCHANGED <<running, cancelled, jobQueue, queues, worker, wg, tasks, stops,
                   closes, panic>>
    /\ UNCHANGED <<pubs, runVars>>

\* Publish without its `if !bus.running { return }`.
PublishNoRunningCheck(k) ==
    /\ panic = NoPanic
    /\ IF ~cancelled
       THEN /\ wg' = wg + 1
            /\ tasks' = [tasks EXCEPT ![k][0] = @ + 1]
            /\ hist' = [hist EXCEPT !.pubCalls = @ + 1,
                                    !.published[k] = @ + 1,
                                    !.pubUnstarted = @ \/ Len(queues) = 0,
                                    !.pubStopped = @ \/ StopReturned]
       ELSE /\ hist' = [hist EXCEPT !.pubCalls = @ + 1,
                                    !.pubUnstarted = @ \/ Len(queues) = 0,
                                    !.pubStopped = @ \/ StopReturned]
            /\ UNCHANGED <<wg, tasks>>
    /\ UNCHANGED <<running, cancelled, jobQueue, queues, worker, subscribers, subs,
                   stops, closes, invoked, panic>>
    /\ UNCHANGED <<pubs, runVars>>

\* Publish sending on the queue itself instead of starting a goroutine for
\* the send: the call waits for room in the queue.
PublishInline(k) ==
    /\ panic = NoPanic
    /\ IF running /\ ~cancelled
       THEN /\ ~queues[jobQueue].closed
            /\ Len(queues[jobQueue].buf) < QueueCap
            /\ queues' = [queues EXCEPT ![jobQueue].buf = Append(@, k)]
            /\ hist' = [hist EXCEPT !.pubCalls = @ + 1,
                                    !.published[k] = @ + 1,
                                    !.pubUnstarted = @ \/ Len(queues) = 0,
                                    !.pubStopped = @ \/ StopReturned]
       ELSE /\ hist' = [hist EXCEPT !.pubCalls = @ + 1,
                                    !.pubUnstarted = @ \/ Len(queues) = 0,
                                    !.pubStopped = @ \/ StopReturned]
            /\ UNCHANGED queues
    /\ UNCHANGED <<running, cancelled, jobQueue, worker, wg, subscribers, subs, tasks,
                   stops, closes, invoked, panic>>
    /\ UNCHANGED <<pubs, runVars>>

\* ----------------------------------------------------------------- Publish
\* Under the read lock: return if not running or if the bus context is done,
\* else wg.Add(1) and start the goroutine that will send the job.  (The call
\* as one step; PublishCheck and PublishAdd are its two halves.)
Publish(k) ==
    /\ panic = NoPanic
    /\ IF running /\ ~cancelled
       THEN /\ wg' = wg + 1
            /\ tasks' = [tasks EXCEPT ![k][0] = @ + 1]
            /\ hist' = [hist EXCEPT !.pubCalls = @ + 1,
                                    !.published[k] = @ + 1,
                                    !.pubUnstarted = @ \/ Len(queues) = 0,
                                    !.pubStopped = @ \/ StopReturned]
       ELSE /\ hist' = [hist EXCEPT !.pubCalls = @ + 1,
                                    !.pubUnstarted = @ \/ Len(queues) = 0,
                                    !.pubStopped = @ \/ StopReturned]
            /\ UNCHANGED <<wg, tasks>>
    /\ UNCHANGED <<running, cancelled, jobQueue, queues, worker, subscribers, subs,
                   stops, closes, invoked, panic>>
    /\ UNCHANGED <<pubs, runVars>>

\* Publish in its two halves, for the interleavings in which something
\* happens between them.  First half: the read lock is taken, running and
\* bus.ctx.Done() are looked at; the call returns, or goes on to the
\* default branch of the select, still holding the read lock.
PublishCheck(k) ==
    /\ panic = NoPanic
    /\ pubs' = [pubs EXCEPT ![k] = IF running /\ ~cancelled THEN @ + 1 ELSE @]
    /\ hist' = [hist EXCEPT !.pubCalls = @ + 1,
                            !.pubUnstarted = @ \/ Len(queues) = 0,
                            !.pubStopped = @ \/ StopReturned]
    /\ UNCHANGED <<running, cancelled, jobQueue, queues, worker, wg, subscribers, subs,
                   tasks, stops, closes, invoked, panic>>
    /\ UNCHANGED runVars

\* Second half: bus.wg.Add(1), the goroutine is started, the read lock is
\* released and Publish returns.
PublishAdd(k) ==
    /\ panic = NoPanic
    /\ pubs[k] > 0
    /\ pubs' = [pubs EXCEPT ![k] = @ - 1]
    /\ wg' = wg + 1
    /\ tasks' = [tasks EXCEPT ![k][0] = @ + 1]
    /\ hist' = [hist EXCEPT !.published[k] = @ + 1]
    /\ UNCHANGED <<running, cancelled, jobQueue, queues, worker, subscribers, subs,
                   stops, closes, invoked, panic>>
    /\ UNCHANGED runVars

\* The publish goroutine reaches `bus.jobQueue <- &job{...}`: it reads the
\* field now.  A send on a closed channel panics, a send on a full channel
\* blocks on that channel, otherwise the job is queued and the deferred
\* wg.Done runs.  (jobQueue is never nil here: running was true.)
TaskSend(k) ==
    /\ panic = NoPanic
    /\ tasks[k][0] > 0
    /\ jobQueue # 0
    /\ IF queues[jobQueue].closed
       THEN /\ panic' = "send on closed channel"
            /\ UNCHANGED <<queues, wg, tasks>>
       ELSE IF Len(queues[jobQueue].buf) < QueueCap
       THEN /\ queues' = [queues EXCEPT ![jobQueue].buf = Append(@, k)]
            /\ tasks' = [tasks EXCEPT ![k][0] = @ - 1]
            /\ wg' = wg - 1
            /\ UNCHANGED panic
       ELSE /\ tasks' = [tasks EXCEPT ![k][0] = @ - 1, ![k][jobQueue] = @ + 1]
            /\ UNCHANGED <<queues, wg, panic>>
    /\ UNCHANGED <<running, cancelled, jobQueue, worker, subscribers, subs, stops,
                   closes, invoked, hist>>
    /\ UNCHANGED <<pubs, runVars>>

\* A publish goroutine blocked in its send on queue q is woken: by a close of
\* q (the send panics) or by room in q.
TaskWake(k, q) ==
    /\ panic = NoPanic
    /\ q \in QueueIds
    /\ tasks[k][q] > 0
    /\ IF queues[q].closed
       THEN /\ panic' = "send on closed channel"
            /\ UNCHANGED <<queues, wg, tasks>>
       ELSE /\ Len(queues[q].buf) < QueueCap
            /\ queues' = [queues EXCEPT ![q].buf = Append(@, k)]
            /\ tasks' = [tasks EXCEPT ![k][q] = @ - 1]
            /\ wg' = wg - 1
            /\ UNCHANGED panic
    /\ UNCHANGED <<running, cancelled, jobQueue, worker, subscribers, subs, stops,
                   closes, invoked, hist>>
    /\ UNCHANGED <<pubs, runVars>>

\* ------------------------------------------------------------ eventWorker
\* run: `case j := <-e.queue`.  A buffered job is received; from a closed and
\* drained channel the receive yields the zero value, a nil *job.
WorkerRecv(g) ==
    /\ panic = NoPanic
    /\ g \in QueueIds
    /\ worker[g].pc = "select"
    /\ IF queues[g].buf # <<>>
       THEN /\ worker' = [worker EXCEPT ![g].pc = "job", ![g].job = Head(queues[g].buf)]
            /\ queues' = [queues EXCEPT ![g].buf = Tail(@)]
       ELSE /\ queues[g].closed
            /\ worker' = [worker EXCEPT ![g].pc = "job", ![g].job = NilJob]
            /\ UNCHANGED queues
    /\ UNCHANGED <<running, cancelled, jobQueue, wg, subscribers, subs, tasks, stops,
                   closes, invoked, panic, hist>>
    /\ UNCHANGED <<pubs, runVars>>

\* run: `case <-ctx.Done()`: the worker returns and the deferred wg.Done runs.
WorkerCtxDone(g) ==
    /\ panic = NoPanic
    /\ g \in QueueIds
    /\ worker[g].pc = "select"
    /\ cancelled
    /\ worker' = [worker EXCEPT ![g].pc = "exit"]
    /\ wg' = wg - 1
    /\ UNCHANGED <<running, cancelled, jobQueue, queues, subscribers, subs, tasks,
                   stops, closes, invoked, panic, hist>>
    /\ UNCHANGED <<pubs, runVars>>

\* handleJob's first lines: j.eventType is read (a nil j panics), the registry
\* snapshot is taken and the job's 30 s deadline starts.  late records the
\* snapshotted subscribers whose Close had already returned.
WorkerSnapshot(g) ==
    /\ panic = NoPanic
    /\ g \in QueueIds
    /\ worker[g].pc = "job"
    /\ IF worker[g].job = NilJob
       THEN /\ panic' = "nil pointer dereference"
            /\ UNCHANGED worker
       ELSE /\ worker' = [worker EXCEPT
                  ![g].pc = "loop",
                  ![g].subs = getSubscribers(worker[g].job),
                  ![g].i = 1,
                  ![g].late = Range(getSubscribers(worker[g].job)) \cap hist.closed,
                  ![g].deadline = FALSE,
                  ![g].snap = subscribers[worker[g].job],
                  ![g].called = <<>>]
            /\ UNCHANGED panic
    /\ UNCHANGED <<running, cancelled, jobQueue, queues, wg, subscribers, subs, tasks,
                   stops, closes, invoked, hist>>
    /\ UNCHANGED <<pubs, runVars>>

\* handleJob returning after the first subscriber of the snapshot.
WorkerLoopFirstOnly(g) ==
    /\ panic = NoPanic
    /\ g \in QueueIds
    /\ worker[g].pc = "loop"
    /\ IF worker[g].i > 1 \/ worker[g].i > Len(worker[g].subs) \/ cancelled
       THEN worker' = [worker EXCEPT ![g] = IdleWorker]
       ELSE worker' = [worker EXCEPT ![g].pc = "invoke"]
    /\ UNCHANGED <<running, cancelled, jobQueue, queues, wg, subscribers, subs, tasks,
                   stops, closes, invoked, panic, hist>>
    /\ UNCHANGED <<pubs, runVars>>

\* handleJob ranging over the registry entry itself instead of its clone.
WorkerLoopLive(g) ==
    /\ panic = NoPanic
    /\ g \in QueueIds
    /\ worker[g].pc = "loop"
    /\ IF worker[g].i > Len(subscribers[worker[g].job]) \/ cancelled
       THEN worker' = [worker EXCEPT ![g] = IdleWorker]
       ELSE worker' = [worker EXCEPT ![g].pc = "invoke",
                                     ![g].subs = subscribers[worker[g].job]]
    /\ UNCHANGED <<running, cancelled, jobQueue, queues, wg, subscribers, subs, tasks,
                   stops, closes, invoked, panic, hist>>
    /\ UNCHANGED <<pubs, runVars>>

\* handleJob returning at the first error a handler has returned.
WorkerLoopStopOnErr(g) ==
    /\ panic = NoPanic
    /\ g \in QueueIds
    /\ worker[g].pc = "loop"
    /\ IF worker[g].i > Len(worker[g].subs) \/ worker[g].err # <<>>
       THEN /\ worker' = [worker EXCEPT ![g] = IdleWorker]
            /\ hist' = [hist EXCEPT !.logged = @ + Len(worker[g].err)]
       ELSE IF cancelled
       THEN /\ worker' = [worker EXCEPT ![g] = IdleWorker]
            /\ UNCHANGED hist
       ELSE /\ worker' = [worker EXCEPT ![g].pc = "invoke"]
            /\ UNCHANGED hist
    /\ UNCHANGED <<running, cancelled, jobQueue, queues, wg, subscribers, subs, tasks,
                   stops, closes, invoked, panic>>
    /\ UNCHANGED <<pubs, runVars>>

\* handleJob's loop head and its select on ctx.Done(): past the last
\* subscriber handleJob returns err to run, which prints it if it is not
\* nil; with the bus context done it returns ctx.Err() in place of err.
WorkerLoop(g) ==
    /\ panic = NoPanic
    /\ g \in QueueIds
    /\ worker[g].pc = "loop"
    /\ IF worker[g].i > Len(worker[g].subs)
       THEN /\ worker' = [worker EXCEPT ![g] = IdleWorker]
            /\ hist' = [hist EXCEPT !.logged = @ + Len(worker[g].err)]
       ELSE IF cancelled
       THEN /\ worker' = [worker EXCEPT ![g] = IdleWorker]
            /\ UNCHANGED hist
       ELSE /\ worker' = [worker EXCEPT ![g].pc = "invoke"]
            /\ UNCHANGED hist
    /\ UNCHANGED <<running, cancelled, jobQueue, queues, wg, subscribers, subs, tasks,
                   stops, closes, invoked, panic>>
    /\ UNCHANGED <<pubs, runVars>>

\* invokeHandler without its select on the job context.
WorkerInvokeNoCtx(g) ==
    /\ panic = NoPanic
    /\ g \in QueueIds
    /\ worker[g].pc = "invoke"
    /\ worker' = [worker EXCEPT
          ![g].pc = "handler",
          ![g].called = Append(@, worker[g].subs[worker[g].i])]
    /\ invoked' = [invoked EXCEPT ![worker[g].subs[worker[g].i]] = @ + 1]
    /\ UNCHANGED <<running, cancelled, jobQueue, queues, wg, subscribers, subs, tasks,
                   stops, closes, panic, hist>>
    /\ UNCHANGED <<pubs, runVars>>

\* invokeHandler's select on the job context: done (deadline elapsed or bus
\* context done) returns ctx.Err() and the loop goes on; otherwise the
\* subscriber's handler is entered.
WorkerInvoke(g) ==
    /\ panic = NoPanic
    /\ g \in QueueIds
    /\ worker[g].pc = "invoke"
    /\ IF worker[g].deadline \/ cancelled
       THEN /\ worker' = [worker EXCEPT ![g].pc = "loop", ![g].i = @ + 1]
            /\ UNCHANGED invoked
       ELSE /\ worker' = [worker EXCEPT
                  ![g].pc = "handler",
                  ![g].called = Append(@, worker[g].subs[worker[g].i])]
            /\ invoked' = [invoked EXCEPT ![worker[g].subs[worker[g].i]] = @ + 1]
    /\ UNCHANGED <<running, cancelled, jobQueue, queues, wg, subscribers, subs, tasks,
                   stops, closes, panic, hist>>
    /\ UNCHANGED <<pubs, runVars>>

\* The handler returns nil (a handler may also never return: this step is
\* then never taken).
HandlerReturn(g) ==
    /\ panic = NoPanic
    /\ g \in QueueIds
    /\ worker[g].pc = "handler"
    /\ worker' = [worker EXCEPT ![g].pc = "loop", ![g].i = @ + 1]
    /\ UNCHANGED <<running, cancelled, jobQueue, queues, wg, subscribers, subs, tasks,
                   stops, closes, invoked, panic, hist>>
    /\ UNCHANGED <<pubs, runVars>>

\* The handler returns an error: `err = errors.Join(err, otherErr)`, and the
\* loop goes on.
HandlerFail(g) ==
    /\ panic = NoPanic
    /\ g \in QueueIds
    /\ worker[g].pc = "handler"
    /\ worker' = [worker EXCEPT
           ![g].pc = "loop",
           ![g].i = @ + 1,
           ![g].err = Append(@, worker[g].subs[worker[g].i]),
           ![g].failed = Append(@, worker[g].subs[worker[g].i])]
    /\ hist' = [hist EXCEPT !.errs = @ + 1]
    /\ UNCHANGED <<running, cancelled, jobQueue, queues, wg, subscribers, subs, tasks,
                   stops, closes, invoked, panic>>
    /\ UNCHANGED <<pubs, runVars>>

\* The job's deadline elapses: context.WithTimeout(ctx, 30*time.Second).
\* The worker's own steps take no time to speak of: it is a handler that
\* outlasts the 30 s.
JobDeadline(g) ==
    /\ panic = NoPanic
    /\ g \in QueueIds
    /\ worker[g].pc = "handler"
    /\ ~worker[g].deadline
    /\ worker' = [worker EXCEPT ![g].deadline = TRUE]
    /\ hist' = [hist EXCEPT !.expired = TRUE]
    /\ UNCHANGED <<running, cancelled, jobQueue, queues, wg, subscribers, subs, tasks,
                   stops, closes, invoked, panic>>
    /\ UNCHANGED <<pubs, runVars>>

\* Stop without its `if !e.running { return }`.
StopCallNoCheck(i) ==
    /\ panic = NoPanic
    /\ stops[i].pc = "idle"
    /\ stops' = [stops EXCEPT ![i].pc = "cancel", ![i].waiter = "waiting"]
    /\ UNCHANGED <<running, cancelled, jobQueue, queues, worker, wg, subscribers, subs,
                   tasks, closes, invoked, panic, hist>>
    /\ UNCHANGED <<pubs, runVars>>

\* -------------------------------------------------------------------- Stop
\* Stop's entry: not running returns at once; otherwise the goroutine that
\* waits on wg and closes done is started.
StopCall(i) ==
    /\ panic = NoPanic
    /\ stops[i].pc = "idle"
    /\ IF ~running
       THEN stops' = [stops EXCEPT ![i].pc = "returned", ![i].noop = TRUE]
       ELSE stops' = [stops EXCEPT ![i].pc = "cancel", ![i].waiter = "waiting"]
    /\ UNCHANGED <<running, cancelled, jobQueue, queues, worker, wg, subscribers, subs,
                   tasks, closes, invoked, panic, hist>>
    /\ UNCHANGED <<pubs, runVars>>

\* e.wg.Wait() returns once the counter is zero; close(done).
StopWaiter(i) ==
    /\ panic = NoPanic
    /\ stops[i].waiter = "waiting"
    /\ wg = 0
    /\ stops' = [stops EXCEPT ![i].waiter = "closed"]
    /\ UNCHANGED <<running, cancelled, jobQueue, queues, worker, wg, subscribers, subs,
                   tasks, closes, invoked, panic, hist>>
    /\ UNCHANGED <<pubs, runVars>>

\* e.cancel()
StopCancel(i) ==
    /\ panic = NoPanic
    /\ stops[i].pc = "cancel"
    /\ cancelled' = TRUE
    /\ stops' = [stops EXCEPT ![i].pc = "select"]
    /\ UNCHANGED <<running, jobQueue, queues, worker, wg, subscribers, subs, tasks,
                   closes, invoked, panic, hist>>
    /\ UNCHANGED <<pubs, runVars>>

\* select: `case <-done`
StopDone(i) ==
    /\ panic = NoPanic
    /\ stops[i].pc = "select"
    /\ stops[i].waiter = "closed"
    /\ stops' = [stops EXCEPT ![i].pc = "close"]
    /\ UNCHANGED <<running, cancelled, jobQueue, queues, worker, wg, subscribers, subs,
                   tasks, closes, invoked, panic, hist>>
    /\ UNCHANGED <<pubs, runVars>>

\* select: `case <-time.After(timeout)`
StopTimeout(i) ==
    /\ panic = NoPanic
    /\ stops[i].pc = "select"
    /\ stops' = [stops EXCEPT ![i].pc = "close", ![i].timedOut = TRUE]
    /\ UNCHANGED <<running, cancelled, jobQueue, queues, worker, wg, subscribers, subs,
                   tasks, closes, invoked, panic, hist>>
    /\ UNCHANGED <<pubs, runVars>>

\* close(e.jobQueue): closing a nil or an already closed channel panics.
StopClose(i) ==
    /\ panic = NoPanic
    /\ stops[i].pc = "close"
    /\ IF jobQueue = 0
       THEN /\ panic' = "close of nil channel"
            /\ UNCHANGED <<queues, stops>>
       ELSE IF queues[jobQueue].closed
       THEN /\ panic' = "close of closed channel"
            /\ UNCHANGED <<queues, stops>>
       ELSE /\ queues' = [queues EXCEPT ![jobQueue].closed = TRUE]
            /\ stops' = [stops EXCEPT ![i].pc = "lock"]
            /\ UNCHANGED panic
    /\ UNCHANGED <<running, cancelled, jobQueue, worker, wg, subscribers, subs, tasks,
                   closes, invoked, hist>>
    /\ UNCHANGED <<pubs, runVars>>

\* e.mu.Lock(); e.running = false; e.mu.Unlock(); return
StopFinish(i) ==
    /\ panic = NoPanic
    /\ NoReader
    /\ stops[i].pc = "lock"
    /\ running' = FALSE
    /\ stops' = [stops EXCEPT ![i].pc = "returned"]
    /\ UNCHANGED <<cancelled, jobQueue, queues, worker, wg, subscribers, subs, tasks,
                   closes, invoked, panic, hist>>
    /\ UNCHANGED <<pubs, runVars>>

\* ------------------------------------------------------------- Unsubscribe
\* Close/Unsubscribe, first half: the snapshot (read lock) with the
\* subscribers of sub's id deleted.
CloseRead(c, h) ==
    /\ panic = NoPanic
    /\ closes[c].pc = "idle"
    /\ h \in Handles
    /\ closes' = [closes EXCEPT ![c] =
           [pc |-> "write", sub |-> h,
            snap |-> DeleteFunc(getSubscribers(subs[h].eventType), subs[h].id)]]
    /\ hist' = [hist EXCEPT !.fresh = @ \cup {c}]
    /\ UNCHANGED <<running, cancelled, jobQueue, queues, worker, wg, subscribers, subs,
                   tasks, stops, invoked, panic>>
    /\ UNCHANGED <<pubs, runVars>>

\* Close/Unsubscribe, second half: the write lock is taken and the registry
\* entry is replaced by the edited snapshot; Close returns.
CloseWrite(c) ==
    /\ panic = NoPanic
    /\ NoReader
    /\ closes[c].pc = "write"
    /\ subscribers' = [subscribers EXCEPT ![subs[closes[c].sub].eventType] = closes[c].snap]
    /\ hist' = [hist EXCEPT !.closed = @ \cup {closes[c].sub},
                            !.lastClose = closes[c].sub,
                            !.fresh = {},
                            !.reclosed = @ \/ (c \in hist.fresh
                                                 /\ hist.lastClose = closes[c].sub)]
    /\ closes' = [closes EXCEPT ![c] = NewClose]
    /\ UNCHANGED <<running, cancelled, jobQueue, queues, worker, wg, subs, tasks, stops,
                   invoked, panic>>
    /\ UNCHANGED <<pubs, runVars>>

\* ------------------------------------------------------------------- DoAll
\* DoAll(targets, w): one goroutine per Target, an unbuffered resultCh, and a
\* collector that receives len(targets) results.
NewTask == [pc |-> "unspawned", err |-> FALSE, failed |-> FALSE]

InitRun(n) ==
    /\ doall = [pc |-> "spawn", n |-> n, i |-> 1, count |-> 0, errors |-> <<>>,
                ret |-> "none", reported |-> 0]
    /\ rtask = [t \in 1..n |-> NewTask]
    /\ results = <<>>

\* `for i := 0; i < len(targets); i++ { ... go func() {...}() }`
Spawn ==
    /\ doall.pc = "spawn"
    /\ doall.i <= doall.n
    /\ rtask' = [rtask EXCEPT ![doall.i].pc = "pipe"]
    /\ doall' = [doall EXCEPT !.i = @ + 1]
    /\ UNCHANGED results
    /\ UNCHANGED <<scan, pipe, find, busVars>>

\* The collector waiting for one result more than there are Targets.
StartCollectOneMore ==
    /\ doall.pc = "spawn"
    /\ doall.i > doall.n
    /\ doall' = [doall EXCEPT !.pc = "collect", !.count = doall.n + 1]
    /\ UNCHANGED <<rtask, results>>
    /\ UNCHANGED <<scan, pipe, find, busVars>>

\* `count := len(targets)`
StartCollect ==
    /\ doall.pc = "spawn"
    /\ doall.i > doall.n
    /\ doall' = [doall EXCEPT !.pc = "collect", !.count = doall.n]
    /\ UNCHANGED <<rtask, results>>
    /\ UNCHANGED <<scan, pipe, find, busVars>>

\* `out, err := pipeReader(cmd)`: on an error the task goes to send
\* "stdout pipe: ..." and return.
RunPipe(t, ok) ==
    /\ t \in DOMAIN rtask
    /\ rtask[t].pc = "pipe"
    /\ rtask' = [rtask EXCEPT ![t] =
           IF ok THEN [@ EXCEPT !.pc = "start"]
                 ELSE [pc |-> "sendPipe", err |-> TRUE, failed |-> TRUE]]
    /\ UNCHANGED <<doall, results>>
    /\ UNCHANGED <<scan, pipe, find, busVars>>

\* `cmd.Start()`: on an error the task reads what there is, then goes to send
\* the error and return.
RunStart(t, ok) ==
    /\ t \in DOMAIN rtask
    /\ rtask[t].pc = "start"
    /\ rtask' = [rtask EXCEPT ![t] =
           IF ok THEN [@ EXCEPT !.pc = "read"]
                 ELSE [pc |-> "sendStart", err |-> TRUE, failed |-> TRUE]]
    /\ UNCHANGED <<doall, results>>
    /\ UNCHANGED <<scan, pipe, find, busVars>>

\* `data, err := io.ReadAll(out)`: on an error the task goes to send
\* "out read: ..."; there is no return after that send.
RunRead(t, ok) ==
    /\ t \in DOMAIN rtask
    /\ rtask[t].pc = "read"
    /\ rtask' = [rtask EXCEPT ![t] =
           IF ok THEN [@ EXCEPT !.pc = "wait"]
                 ELSE [pc |-> "sendRead", err |-> TRUE, failed |-> TRUE]]
    /\ UNCHANGED <<doall, results>>
    /\ UNCHANGED <<scan, pipe, find, busVars>>

\* `err = cmd.Wait()`: nil, or the error of a non-zero exit; the task goes to
\* send the result.
RunWait(t, ok) ==
    /\ t \in DOMAIN rtask
    /\ rtask[t].pc = "wait"
    /\ rtask' = [rtask EXCEPT ![t] =
           [pc |-> "sendWait", err |-> ~ok, failed |-> @.failed \/ ~ok]]
    /\ UNCHANGED <<doall, results>>
    /\ UNCHANGED <<scan, pipe, find, busVars>>

\* Where a task goes after its send on resultCh has been received.
AfterSend(pc) == IF pc = "sendRead" THEN "wait" ELSE "done"

\* The rendezvous on the unbuffered resultCh: task t's send meets the
\* collector's `r := <-resultCh`; an error is appended, count--.
Deliver(t) ==
    /\ t \in DOMAIN rtask
    /\ rtask[t].pc \in {"sendPipe", "sendStart", "sendRead", "sendWait"}
    /\ doall.pc = "collect"
    /\ doall.count > 0
    /\ results' = Append(results, [src |-> t, err |-> rtask[t].err])
    /\ doall' = [doall EXCEPT
           !.count = @ - 1,
           !.errors = IF rtask[t].err THEN Append(@, t) ELSE @]
    /\ rtask' = [rtask EXCEPT ![t].pc = AfterSend(rtask[t].pc), ![t].err = FALSE]
    /\ UNCHANGED <<scan, pipe, find, busVars>>

\* The number in "encountered %d errors".
ReportedCount(d) == d.n

\* After the loop: an aggregate error if any error was collected, else nil.
Return ==
    /\ doall.pc = "collect"
    /\ doall.count = 0
    /\ doall' = [doall EXCEPT
           !.pc = "returned",
           !.ret = IF Len(doall.errors) > 0 THEN "error" ELSE "nil",
           !.reported = IF Len(doall.errors) > 0 THEN ReportedCount(doall) ELSE 0]
    /\ UNCHANGED <<rtask, results>>
    /\ UNCHANGED <<scan, pipe, find, busVars>>

\* ------------------------------------------------- a Target's process, pipes
\* What RunRead and RunWait stand for, for one Target whose cmd.Start()
\* succeeded.  The process writes script, byte by byte, to its stdout and its
\* stderr, each an OS pipe that holds PipeCap bytes, and exits, which closes
\* the write ends.  The task reads `io.MultiReader(stdout, stderr)` with
\* io.ReadAll (stdout until its EOF, only then stderr until its EOF) and then
\* calls cmd.Wait().
Streams == {"stdout", "stderr"}

\* No process is run.
NoPipe == [pc |-> "idle", buf |-> [s \in Streams |-> 0], script |-> <<>>,
           exited |-> FALSE]

\* cmd.Start() has returned nil: the task is at io.ReadAll(out).
InitPipe(w) ==
    pipe = [pc |-> "stdout", buf |-> [s \in Streams |-> 0], script |-> w,
            exited |-> FALSE]

\* The process writes its next byte; the write blocks while the pipe is full.
ProcWrite ==
    /\ ~pipe.exited
    /\ pipe.script # <<>>
    /\ pipe.buf[Head(pipe.script)] < PipeCap
    /\ pipe' = [pipe EXCEPT !.buf[Head(pipe.script)] = @ + 1, !.script = Tail(@)]
    /\ UNCHANGED <<doall, rtask, results, scan, find>>
    /\ UNCHANGED busVars

\* The process has written everything and exits.
ProcExit ==
    /\ ~pipe.exited
    /\ pipe.script = <<>>
    /\ pipe' = [pipe EXCEPT !.exited = TRUE]
    /\ UNCHANGED <<doall, rtask, results, scan, find>>
    /\ UNCHANGED busVars

\* io.ReadAll on the MultiReader: a Read of the current stream takes a byte;
\* at the stream's EOF (write end closed, pipe empty) the MultiReader goes on
\* to the next stream, and after the last one ReadAll returns.
PipeRead ==
    /\ pipe.pc \in Streams
    /\ IF pipe.buf[pipe.pc] > 0
       THEN pipe' = [pipe EXCEPT !.buf[pipe.pc] = @ - 1]
       ELSE /\ pipe.exited
            /\ pipe' = [pipe EXCEPT !.pc = IF pipe.pc = "stdout" THEN "stderr" ELSE "wait"]
    /\ UNCHANGED <<doall, rtask, results, scan, find>>
    /\ UNCHANGED busVars

\* `err = cmd.Wait()` returns once the process has exited.
PipeWait ==
    /\ pipe.pc = "wait"
    /\ pipe.exited
    /\ pipe' = [pipe EXCEPT !.pc = "done"]
    /\ UNCHANGED <<doall, rtask, results, scan, find>>
    /\ UNCHANGED busVars

\* -------------------------------------------------------------- anyMissing
\* File names: the keys of SFVFile.items and of DirSnapshot.files.
AllNames == <<"a", "b", "c", "d", "e">>

FileNames == {AllNames[n] : n \in 1..NumNames}

\* No anyMissing call is made.
NoScan == [pc |-> "idle", sfv |-> {}, dir |-> {}, todo |-> {}, missing |-> <<>>]

\* anyMissing(sfv, dir) is entered: `missing := []string{}`; sfv and dir are
\* the key sets of the two maps, todo the manifest keys the range has not
\* yet produced.
InitScan(m, d) ==
    scan = [pc |-> "range", sfv |-> m, dir |-> d, todo |-> m, missing |-> <<>>]

\* anyMissing appending the names it finds in the directory.
MissingVisitPresent(f) ==
    /\ scan.pc = "range"
    /\ f \in scan.todo
    /\ scan' = [scan EXCEPT
           !.todo = @ \ {f},
           !.missing = IF f \in scan.dir THEN Append(@, f) ELSE @]
    /\ UNCHANGED <<doall, rtask, results, pipe, find>>
    /\ UNCHANGED busVars

\* One pass of `for sfvFile := range sfv.items`: the range over a map
\* produces the keys in any order; a key that is no key of dir.files is
\* appended to missing.
MissingVisit(f) ==
    /\ scan.pc = "range"
    /\ f \in scan.todo
    /\ scan' = [scan EXCEPT
           !.todo = @ \ {f},
           !.missing = IF f \notin scan.dir THEN Append(@, f) ELSE @]
    /\ UNCHANGED <<doall, rtask, results, pipe, find>>
    /\ UNCHANGED busVars

\* `return missing`
MissingReturn ==
    /\ scan.pc = "range"
    /\ scan.todo = {}
    /\ scan' = [scan EXCEPT !.pc = "returned"]
    /\ UNCHANGED <<doall, rtask, results, pipe, find>>
    /\ UNCHANGED busVars

\* ----------------------------------------------------------- FindUnrarable
\* A directory snapshot is the set of its file names: SfvName is the
\* manifest file, "a" the name that ends in .rar, the others end in neither.
SfvName == "sfv"

Ext(f) == IF f = SfvName THEN ".sfv" ELSE IF f = "a" THEN ".rar" ELSE ""

\* dir.FindExt(ext)
FindExt(d, e) == {f \in d : Ext(f) = e}

\* No FindUnrarable call is made.
NoFind == [pc |-> "idle", dir |-> {}, items |-> {}, inner |-> "none",
           parseOk |-> TRUE, ret |-> "none"]

\* FindUnrarable(dir) is entered.  items are the names the manifest file
\* lists and parseOk whether it can be read; inner is the name `unrar lb`
\* prints for the archive ("fail" when the command fails).
InitFind(d, m, inner, ok) ==
    find = [pc |-> "sfv", dir |-> d, items |-> m, inner |-> inner,
            parseOk |-> ok, ret |-> "none"]

\* NoMissingFiles' boolean: `return len(result.Value) > 0, result`, where
\* result.Value is anyMissing's list if that is not empty.
NoMissingFiles(missing) == Len(missing) > 0

\* NotAlreadyUnrared's boolean: false without a .rar file, false if the file
\* the archive holds is in the directory, else true.
NotAlreadyUnrared(d, inner) == FindExt(d, ".rar") # {} /\ inner \notin d

\* `if files := dir.FindExt(".sfv"); len(files) > 0 { ... } else { return
\* &result, fmt.Errorf("no .sfv files found ...") }`
FindSfv ==
    /\ find.pc = "sfv"
    /\ find' = IF FindExt(find.dir, ".sfv") = {}
               THEN [find EXCEPT !.pc = "returned", !.ret = "error"]
               ELSE [find EXCEPT !.pc = "parse"]
    /\ UNCHANGED <<doall, rtask, results, scan, pipe>>
    /\ UNCHANGED busVars

\* `sfv, err := parseSFV(sfvFile)`, and on success the call of
\* NoMissingFiles, which calls anyMissing(sfv, dir).
FindParse ==
    /\ find.pc = "parse"
    /\ IF find.parseOk
       THEN /\ find' = [find EXCEPT !.pc = "missing"]
            /\ scan' = [pc |-> "range", sfv |-> find.items, dir |-> find.dir,
                        todo |-> find.items, missing |-> <<>>]
       ELSE /\ find' = [find EXCEPT !.pc = "returned", !.ret = "error"]
            /\ UNCHANGED scan
    /\ UNCHANGED <<doall, rtask, results, pipe>>
    /\ UNCHANGED busVars

\* `if ok, criteria := NoMissingFiles(dir, sfv); !ok { return nil,
\* criteria.Error() }`
FindNoMissing ==
    /\ find.pc = "missing"
    /\ scan.pc = "returned"
    /\ find' = IF ~NoMissingFiles(scan.missing)
               THEN [find EXCEPT !.pc = "returned", !.ret = "error"]
               ELSE [find EXCEPT !.pc = "unrared"]
    /\ UNCHANGED <<doall, rtask, results, scan, pipe>>
    /\ UNCHANGED busVars

\* `if ok, criteria := NotAlreadyUnrared(dir, sfv); !ok { return nil,
\* criteria.Error() }`
FindNotUnrared ==
    /\ find.pc = "unrared"
    /\ find' = IF ~NotAlreadyUnrared(find.dir, find.inner)
               THEN [find EXCEPT !.pc = "returned", !.ret = "error"]
               ELSE [find EXCEPT !.pc = "rar"]
    /\ UNCHANGED <<doall, rtask, results, scan, pipe>>
    /\ UNCHANGED busVars

\* `v, err := findFirst(dir.FindExt(".rar"))`: an error without a .rar file,
\* else the Target is returned with a nil error.
FindRar ==
    /\ find.pc = "rar"
    /\ find' = IF FindExt(find.dir, ".rar") = {}
               THEN [find EXCEPT !.pc = "returned", !.ret = "error"]
               ELSE [find EXCEPT !.pc = "returned", !.ret = "target"]
    /\ UNCHANGED <<doall, rtask, results, scan, pipe>>
    /\ UNCHANGED busVars

\* ---------------------------------------------------------- specifications
\* The bus scenarios leave package rary alone: DoAll is called with no
\* Target, anyMissing and FindUnrarable are not called, no process runs.
Init == InitBus /\ InitRun(0) /\ scan = NoScan /\ pipe = NoPipe /\ find = NoFind

\* SpecLife: the bus's lifecycle.  Start, Stop (two calls, which may overlap),
\* Publish and one subscriber of kind X, in any order.
NextLife ==
    \/ hist.startCalls < LifeStartCalls /\ Start
    \/ Len(subs) < 1 /\ Subscribe("X", 1)
    \/ hist.pubCalls < LifePublish /\ Publish("X")
    \/ TaskSend("X")
    \/ \E g \in 1..MaxQueues : WorkerRecv(g)
    \/ \E g \in 1..MaxQueues : WorkerCtxDone(g)
    \/ \E g \in 1..MaxQueues : WorkerSnapshot(g)
    \/ \E g \in 1..MaxQueues : WorkerLoop(g)
    \/ \E g \in 1..MaxQueues : WorkerInvoke(g)
    \/ \E g \in 1..MaxQueues : HandlerReturn(g)
    \/ \E i \in 1..MaxStops : StopCall(i)
    \/ \E i \in 1..MaxStops : StopWaiter(i)
    \/ \E i \in 1..MaxStops : StopCancel(i)
    \/ \E i \in 1..MaxStops : StopDone(i)
    \/ \E i \in 1..MaxStops : StopTimeout(i)
    \/ \E i \in 1..MaxStops : StopClose(i)
    \/ \E i \in 1..MaxStops : StopFinish(i)

SpecLife == Init /\ [][NextLife]_vars

\* SpecDeliver: delivery on a started bus that is never stopped.  The
\* subscribers are registered before the first Publish and never closed.
NextDeliver ==
    \/ hist.startCalls < 1 /\ Start
    \/ \E k \in Kinds :
          Len(subs) < DeliverSubs /\ hist.pubCalls = 0 /\ Subscribe(k, Len(subs) + 1)
    \/ \E k \in Kinds : running /\ hist.pubCalls < DeliverPublish /\ Publish(k)
    \/ \E k \in Kinds : TaskSend(k)
    \/ WorkerRecv(1)
    \/ WorkerSnapshot(1)
    \/ WorkerLoop(1)
    \/ WorkerInvoke(1)
    \/ HandlerReturn(1)
    \/ JobDeadline(1)

SpecDeliver == Init /\ [][NextDeliver]_vars

\* The scheduler runs every goroutine that can run, and handlers return; no
\* fairness is asked of the callers or of the deadline.
FairDeliver ==
    /\ SpecDeliver
    /\ \A k \in Kinds : WF_vars(TaskSend(k))
    /\ WF_vars(WorkerRecv(1))
    /\ WF_vars(WorkerSnapshot(1))
    /\ WF_vars(WorkerLoop(1))
    /\ WF_vars(WorkerInvoke(1))
    /\ WF_vars(HandlerReturn(1))

\* SpecUnsub: Close calls overlapping each other, Subscribe and Publish on a
\* started bus, all of kind X.
NextUnsub ==
    \/ hist.startCalls < 1 /\ Start
    \/ \E id \in 1..NumIds : Len(subs) < UnsubSubs /\ Subscribe("X", id)
    \/ running /\ hist.pubCalls < UnsubPublish /\ Publish("X")
    \/ TaskSend("X")
    \/ WorkerRecv(1)
    \/ WorkerSnapshot(1)
    \/ WorkerLoop(1)
    \/ WorkerInvoke(1)
    \/ HandlerReturn(1)
    \/ \E c \in 1..MaxCloses, h \in 1..UnsubSubs : CloseRead(c, h)
    \/ \E c \in 1..MaxCloses : CloseWrite(c)

SpecUnsub == Init /\ [][NextUnsub]_vars

\* SpecIdem: the registry alone.  Subscribe and Close calls of kind X, any
\* handle closed any number of times, on a bus that is not started.
NextIdem ==
    \/ \E id \in 1..NumIds : Len(subs) < IdemSubs /\ Subscribe("X", id)
    \/ \E c \in 1..IdemCloses, h \in 1..IdemSubs : CloseRead(c, h)
    \/ \E c \in 1..IdemCloses : CloseWrite(c)

SpecIdem == Init /\ [][NextIdem]_vars

\* SpecSnap: Subscribe and Close calls (one Close at a time) while the worker
\* dispatches, on a started bus, all of kind X.
NextSnap ==
    \/ hist.startCalls < 1 /\ Start
    \/ Len(subs) < SnapSubs /\ Subscribe("X", Len(subs) + 1)
    \/ running /\ hist.pubCalls < SnapPublish /\ Publish("X")
    \/ TaskSend("X")
    \/ WorkerRecv(1)
    \/ WorkerSnapshot(1)
    \/ WorkerLoop(1)
    \/ WorkerInvoke(1)
    \/ HandlerReturn(1)
    \/ \E h \in 1..SnapSubs : CloseRead(1, h)
    \/ CloseWrite(1)

SpecSnap == Init /\ [][NextSnap]_vars

\* SpecFull: backpressure.  One subscriber whose handler never returns, so
\* the worker takes one job and no more; Publish calls past the capacity of
\* the queue, each made once the goroutine of the one before has reached its
\* send, and none once Stop has cancelled; one Stop call.
NextFull ==
    \/ hist.startCalls < 1 /\ Start
    \/ Len(subs) < 1 /\ ~running /\ Subscribe("X", 1)
    \/ /\ Len(subs) = 1
       /\ running
       /\ ~cancelled
       /\ tasks["X"][0] = 0
       /\ hist.pubCalls < QueueCap + FullExtra
       /\ Publish("X")
    \/ TaskSend("X")
    \/ TaskWake("X", 1)
    \/ WorkerRecv(1)
    \/ WorkerCtxDone(1)
    \/ WorkerSnapshot(1)
    \/ WorkerLoop(1)
    \/ WorkerInvoke(1)
    \/ StopCall(1)
    \/ StopWaiter(1)
    \/ StopCancel(1)
    \/ StopDone(1)
    \/ StopTimeout(1)
    \/ StopClose(1)
    \/ StopFinish(1)

SpecFull == Init /\ [][NextFull]_vars

\* The scheduler runs every goroutine that can run and Stop's timer fires;
\* nothing is asked of the handler, which may never return.
FairFull ==
    /\ SpecFull
    /\ WF_vars(TaskSend("X"))
    /\ WF_vars(TaskWake("X", 1))
    /\ WF_vars(WorkerRecv(1) \/ WorkerCtxDone(1))
    /\ WF_vars(WorkerSnapshot(1))
    /\ WF_vars(WorkerLoop(1))
    /\ WF_vars(WorkerInvoke(1))
    /\ WF_vars(StopWaiter(1))
    /\ WF_vars(StopCancel(1))
    /\ WF_vars(StopDone(1) \/ StopTimeout(1))
    /\ WF_vars(StopClose(1))
    /\ WF_vars(StopFinish(1))

\* SpecDoAll: DoAll on 0..MaxTargets Targets, every outcome of every call.
InitDoAll ==
    /\ InitBus
    /\ scan = NoScan /\ pipe = NoPipe /\ find = NoFind
    /\ \E n \in 0..MaxTargets : InitRun(n)

NextDoAll ==
    \/ Spawn
    \/ StartCollect
    \/ \E t \in 1..MaxTargets, ok \in BOOLEAN : RunPipe(t, ok)
    \/ \E t \in 1..MaxTargets, ok \in BOOLEAN : RunStart(t, ok)
    \/ \E t \in 1..MaxTargets, ok \in BOOLEAN : RunRead(t, ok)
    \/ \E t \in 1..MaxTargets, ok \in BOOLEAN : RunWait(t, ok)
    \/ \E t \in 1..MaxTargets : Deliver(t)
    \/ Return

SpecDoAll == InitDoAll /\ [][NextDoAll]_vars

\* The scheduler runs every goroutine that can run, and every call a task
\* makes returns: the pipes are set up or not, the process starts or not,
\* its output ends and it exits.
FairDoAll ==
    /\ SpecDoAll
    /\ WF_vars(Spawn)
    /\ WF_vars(StartCollect)
    /\ \A t \in 1..MaxTargets :
          /\ WF_vars(\E ok \in BOOLEAN : RunPipe(t, ok))
          /\ WF_vars(\E ok \in BOOLEAN : RunStart(t, ok))
          /\ WF_vars(\E ok \in BOOLEAN : RunRead(t, ok))
          /\ WF_vars(\E ok \in BOOLEAN : RunWait(t, ok))
    /\ WF_vars(\E t \in 1..MaxTargets : Deliver(t))
    /\ WF_vars(Return)

\* SpecErr: delivery on a started bus that is never stopped, with handlers
\* that may return an error.  The subscribers are registered before the
\* first Publish and never closed.
NextErr ==
    \/ hist.startCalls < 1 /\ Start
    \/ Len(subs) < ErrSubs /\ hist.pubCalls = 0 /\ Subscribe("X", Len(subs) + 1)
    \/ running /\ hist.pubCalls < ErrPublish /\ Publish("X")
    \/ TaskSend("X")
    \/ WorkerRecv(1)
    \/ WorkerSnapshot(1)
    \/ WorkerLoop(1)
    \/ WorkerInvoke(1)
    \/ HandlerReturn(1)
    \/ HandlerFail(1)

SpecErr == Init /\ [][NextErr]_vars

\* The scheduler runs every goroutine that can run, and handlers return, with
\* an error or without.
FairErr ==
    /\ SpecErr
    /\ WF_vars(TaskSend("X"))
    /\ WF_vars(WorkerRecv(1))
    /\ WF_vars(WorkerSnapshot(1))
    /\ WF_vars(WorkerLoop(1))
    /\ WF_vars(WorkerInvoke(1))
    /\ WF_vars(HandlerReturn(1) \/ HandlerFail(1))

\* SpecRace: Publish calls racing with one Stop call on a started bus with no
\* subscriber; Stop's cancel may fall between a Publish call's checks and its
\* wg.Add.
NextRace ==
    \/ hist.startCalls < 1 /\ Start
    \/ hist.pubCalls < RacePublish /\ PublishCheck("X")
    \/ PublishAdd("X")
    \/ TaskSend("X")
    \/ WorkerRecv(1)
    \/ WorkerCtxDone(1)
    \/ WorkerSnapshot(1)
    \/ WorkerLoop(1)
    \/ StopCall(1)
    \/ StopWaiter(1)
    \/ StopCancel(1)
    \/ StopDone(1)
    \/ StopTimeout(1)
    \/ StopClose(1)
    \/ StopFinish(1)

SpecRace == Init /\ [][NextRace]_vars

\* SpecMissing: anyMissing on every manifest and every directory snapshot
\* over FileNames, the map range taken in every order.
InitMissing ==
    /\ InitBus
    /\ InitRun(0)
    /\ pipe = NoPipe /\ find = NoFind
    /\ \E m \in SUBSET FileNames, d \in SUBSET FileNames : InitScan(m, d)

NextMissing ==
    \/ \E f \in FileNames : MissingVisit(f)
    \/ MissingReturn

SpecMissing == InitMissing /\ [][NextMissing]_vars

\* SpecCancel: cancellation during dispatch.  Subscribers of kind X registered
\* before the first Publish, Publish calls, and the bus context cancelled at
\* any moment, by one Stop call or by the caller of New.
NextCancel ==
    \/ hist.startCalls < 1 /\ Start
    \/ Len(subs) < CancelSubs /\ hist.pubCalls = 0 /\ Subscribe("X", Len(subs) + 1)
    \/ running /\ hist.pubCalls < CancelPublish /\ Publish("X")
    \/ TaskSend("X")
    \/ WorkerRecv(1)
    \/ WorkerCtxDone(1)
    \/ WorkerSnapshot(1)
    \/ WorkerLoop(1)
    \/ WorkerInvoke(1)
    \/ HandlerReturn(1)
    \/ ParentCancel
    \/ StopCall(1)
    \/ StopWaiter(1)
    \/ StopCancel(1)
    \/ StopDone(1)
    \/ StopTimeout(1)
    \/ StopClose(1)
    \/ StopFinish(1)

SpecCancel == Init /\ [][NextCancel]_vars

\* SpecReent: a handler that calls the bus.  One subscriber and one Publish
\* from outside; while its handler runs (`return sub.handler(ctx, event)`)
\* the handler calls Publish, Subscribe and the Close of its own
\* subscription, one call after the other, and returns after a call.
InHandler == 1 \in QueueIds /\ worker[1].pc = "handler"

OwnHandle == worker[1].subs[worker[1].i]

NextReent ==
    \/ hist.startCalls < 1 /\ Start
    \/ Len(subs) < 1 /\ Subscribe("X", 1)
    \/ running /\ hist.pubCalls = 0 /\ Publish("X")
    \/ TaskSend("X")
    \/ WorkerRecv(1)
    \/ WorkerSnapshot(1)
    \/ WorkerLoop(1)
    \/ WorkerInvoke(1)
    \/ closes[1].pc = "idle" /\ HandlerReturn(1)
    \/ InHandler /\ closes[1].pc = "idle" /\ hist.pubCalls < ReentPublish /\ Publish("X")
    \/ InHandler /\ closes[1].pc = "idle" /\ Len(subs) < ReentSubs
          /\ Subscribe("X", Len(subs) + 1)
    \/ InHandler /\ CloseRead(1, OwnHandle)
    \/ InHandler /\ CloseWrite(1)

SpecReent == Init /\ [][NextReent]_vars

\* The sequences over Streams of length n.
WritesOfLen(n) == [1..n -> Streams]

\* SpecPipe: one Target's process, writing any MaxWrites bytes or fewer to
\* its two streams in any order, and the task reading them.
InitPipeRun ==
    /\ InitBus
    /\ InitRun(0)
    /\ scan = NoScan /\ find = NoFind
    /\ \E n \in 0..MaxWrites : \E w \in WritesOfLen(n) : InitPipe(w)

NextPipe ==
    \/ ProcWrite
    \/ ProcExit
    \/ PipeRead
    \/ PipeWait

SpecPipe == InitPipeRun /\ [][NextPipe]_vars

\* SpecFind: FindUnrarable on every directory snapshot over FileNames and the
\* manifest file, every manifest with at least one entry, every answer of
\* `unrar lb`.
InitFindRun ==
    /\ InitBus
    /\ InitRun(0)
    /\ scan = NoScan /\ pipe = NoPipe
    /\ \E d \in SUBSET (FileNames \cup {SfvName}), m \in (SUBSET FileNames) \ {{}},
          inner \in FileNames \cup {"fail"}, ok \in BOOLEAN : InitFind(d, m, inner, ok)

NextFind ==
    \/ FindSfv
    \/ FindParse
    \/ \E f \in FileNames : MissingVisit(f)
    \/ MissingReturn
    \/ FindNoMissing
    \/ FindNotUnrared
    \/ FindRar

SpecFind == InitFindRun /\ [][NextFind]_vars

\* SpecRestart: a bus that is started, stopped by one Stop call and started
\* again, with one subscriber of kind X; the Publish calls are made before
\* Stop is called or after the bus was started again.
NextRestart ==
    \/ hist.startCalls < RestartStarts /\ Start
    \/ Len(subs) < 1 /\ Subscribe("X", 1)
    \/ /\ running
       /\ stops[1].pc = "idle" \/ Len(queues) > 1
       /\ hist.pubCalls < RestartPublish
       /\ Publish("X")
    \/ TaskSend("X")
    \/ \E g \in 1..MaxQueues : WorkerRecv(g)
    \/ \E g \in 1..MaxQueues : WorkerCtxDone(g)
    \/ \E g \in 1..MaxQueues : WorkerSnapshot(g)
    \/ \E g \in 1..MaxQueues : WorkerLoop(g)
    \/ \E g \in 1..MaxQueues : WorkerInvoke(g)
    \/ \E g \in 1..MaxQueues : HandlerReturn(g)
    \/ StopCall(1)
    \/ StopWaiter(1)
    \/ StopCancel(1)
    \/ StopDone(1)
    \/ StopTimeout(1)
    \/ StopClose(1)
    \/ StopFinish(1)

SpecRestart == Init /\ [][NextRestart]_vars

\* ------------------------------------------------------------------ claims
\* Nothing is in flight: no publish goroutine, no queued job, every worker
\* back at its select.
Quiescent ==
    /\ \A k \in Kinds, q \in 0..MaxQueues : tasks[k][q] = 0
    /\ \A g \in QueueIds : queues[g].buf = <<>> /\ worker[g].pc = "select"

\* Every handler has been entered once per Publish of its kind.
DeliveredExactly ==
    \A h \in Handles : invoked[h] = hist.published[subs[h].eventType]

\* C1, as stated: with the subscribers registered before the first Publish
\* and never closed, on a started bus that is not stopped, once the N Publish
\* calls have been dispatched every handler has been invoked exactly N times.
C1_ExactlyN == Quiescent => DeliveredExactly

\* C1, amended: no handler is ever invoked more than N times, and unless a
\* Job's deadline elapses during its dispatch, the bus comes to rest with
\* every handler invoked exactly N times.
C1_ExactlyNUnlessDeadline ==
    /\ [](\A h \in Handles : invoked[h] <= hist.published[subs[h].eventType])
    /\ <>[](hist.expired \/ (Quiescent /\ DeliveredExactly))

\* Two subscribers of one kind, two Publish calls of that kind, no deadline
\* elapsed, both handlers invoked twice.
C1_Witness ==
    /\ Len(subs) = 2
    /\ subs[1].eventType = "X" /\ subs[2].eventType = "X"
    /\ hist.published["X"] = 2
    /\ ~hist.expired
    /\ invoked[1] = 2 /\ invoked[2] = 2

\* C2: a handler is never entered for a Job whose snapshot was taken after
\* that subscriber's Close had returned.
C2_NoDispatchAfterClose ==
    \A g \in QueueIds :
        worker[g].pc = "handler" => worker[g].subs[worker[g].i] \notin worker[g].late

\* The results the collector has received from Target t.
ResultsOf(t) == {n \in 1..Len(results) : results[n].src = t}

\* C3: every Target yields exactly one result, never two, and by the time
\* DoAll returns each Target has yielded its one.
C3_ExactlyOneResult ==
    /\ \A t \in DOMAIN rtask : Cardinality(ResultsOf(t)) <= 1
    /\ doall.pc = "returned" => \A t \in DOMAIN rtask : Cardinality(ResultsOf(t)) = 1

\* The Targets that failed.
Failed == {t \in DOMAIN rtask : rtask[t].failed}

\* C4: when DoAll returns (taking the runs in which each of the M Targets
\* has yielded its one result), exactly the T failed Targets are marked
\* failed, each with its detail in the summary, and the count stated in the
\* aggregate error is T.
C4_FailureCount ==
    (doall.pc = "returned" /\ \A t \in DOMAIN rtask : Cardinality(ResultsOf(t)) = 1) =>
        /\ Len(doall.errors) = Cardinality(Failed)
        /\ Range(doall.errors) = Failed
        /\ Failed # {} => doall.ret = "error" /\ doall.reported = Cardinality(Failed)

\* C5: a Publish call on a bus that was never started, or after a Stop has
\* returned, starts no publish goroutine, queues no Job, enters no handler
\* and does not panic.
C5_PublishNotRunning ==
    [][((Len(queues) = 0 \/ StopReturned) /\ hist'.pubCalls = hist.pubCalls + 1)
         => /\ tasks' = tasks
            /\ wg' = wg
            /\ queues' = queues
            /\ invoked' = invoked
            /\ panic' = NoPanic]_vars

\* Publish has been called both before the first Start and after a Stop
\* returned.
C5_Witness == hist.pubUnstarted /\ hist.pubStopped

\* C6: on a running bus a Publish call can always complete, whatever the
\* queue holds.
C6_PublishNeverWaits ==
    (running /\ ~cancelled /\ panic = NoPanic) => ENABLED Publish("X")

\* The queue holds its 100 Jobs, the worker is inside the handler, publish
\* goroutines are blocked in their send, and every Publish call has returned.
C6_Witness ==
    /\ Len(queues) = 1
    /\ Len(queues[1].buf) = QueueCap
    /\ worker[1].pc = "handler"
    /\ tasks["X"][1] >= 2
    /\ hist.published["X"] = QueueCap + 1 + tasks["X"][1]

\* C7: a Stop call on a running bus returns and leaves the bus not running,
\* here in the case the claim names: the handler never returns (the worker
\* is inside it) and publish goroutines are blocked on the full queue.
C7_StopReturns ==
    (stops[1].pc = "cancel" /\ worker[1].pc = "handler" /\ tasks["X"][1] > 0)
        ~> (stops[1].pc = "returned" /\ ~running)

\* C8: no Stop call panics: the queue is never closed twice.
C8_StopNeverPanics ==
    panic \notin {"close of closed channel", "close of nil channel"}

\* C9: while the bus has never been started, whatever Stop calls were made,
\* its context is not cancelled, it has no queue, it is not running and
\* nothing has panicked.
C9_StopUnstartedNoOp ==
    Len(queues) = 0 =>
        /\ ~cancelled
        /\ ~running
        /\ jobQueue = 0
        /\ wg = 0
        /\ panic = NoPanic
        /\ \A i \in 1..MaxStops : stops[i].pc \in {"idle", "returned"}

\* The only Stop call made was a no-op, so it was made before the first
\* Start; an event published later was delivered.
C9_Witness ==
    /\ stops[1].noop
    /\ \A i \in 2..MaxStops : stops[i].pc = "idle"
    /\ Len(subs) = 1
    /\ invoked[1] > 0

\* C10: a Start call on a running bus changes nothing of the bus: no new
\* worker, the same queue with the same Jobs, the same counters.
C10_StartIdempotent ==
    [][(running /\ hist'.startCalls = hist.startCalls + 1)
         => UNCHANGED <<running, cancelled, jobQueue, queues, worker, wg,
                        subscribers, tasks>>]_vars

\* Start has been called on a running bus, which still has its one queue and
\* one worker.
C10_Witness ==
    /\ hist.startOnRunning
    /\ running
    /\ Len(queues) = 1
    /\ Len(worker) = 1

\* C11: a Close of a Subscription whose own Close was the last operation on
\* the registry (the second Close, nothing in between) leaves the whole
\* registry as it was, so it removes no other subscriber, and does not panic.
C11_CloseIdempotent ==
    [][\A c \in 1..IdemCloses :
          (/\ closes[c].pc = "write" /\ closes'[c].pc = "idle"
           /\ c \in hist.fresh
           /\ hist.lastClose = closes[c].sub)
             => subscribers' = subscribers /\ panic' = NoPanic]_vars

\* A second Close has returned, and the other subscriber is still registered.
C11_Witness ==
    /\ hist.reclosed
    /\ hist.lastClose # 0
    /\ \E h \in Handles : h # hist.lastClose /\ h \in Range(subscribers["X"])
    /\ panic = NoPanic

\* C12: no two subscribers created on the bus share an id.
C12_UniqueIds ==
    \A h1, h2 \in Handles : h1 # h2 => subs[h1].id # subs[h2].id

\* The subscribers of kind k that were subscribed and whose Close has not
\* returned.
Expected(k) == {h \in Handles : subs[h].eventType = k} \ hist.closed

\* C15: once every call has returned the registry of each kind holds exactly
\* the subscribers subscribed and not unsubscribed.  (Taken where the ids
\* are distinct, so that a Close names one subscriber.)
C15_NoLostUpdate ==
    (C12_UniqueIds /\ \A c \in 1..MaxCloses : closes[c].pc = "idle")
        => \A k \in Kinds : Range(subscribers[k]) = Expected(k)

\* C19: a Close removes its own subscriber and no other, of any kind.  (Taken
\* for a Close that no other registry write overlaps.)
C19_RemovesOnlyItself ==
    [][\A c \in 1..MaxCloses :
          (closes[c].pc = "write" /\ closes'[c].pc = "idle" /\ c \in hist.fresh)
             => \A k \in Kinds :
                   Range(subscribers'[k]) = Range(subscribers[k]) \ {closes[c].sub}]_vars

\* C18: the handlers entered for a Job are those of the registry entry as it
\* was when the Job's snapshot was taken, in its order, and (on a bus that is
\* not stopped, the deadline aside) handleJob returns only when all of them
\* have been entered, whatever Subscribe and Close calls completed meanwhile.
C18_SnapshotDispatch ==
    \A g \in QueueIds :
        worker[g].pc \in {"loop", "invoke", "handler"} =>
            /\ Len(worker[g].called) <= Len(worker[g].snap)
            /\ \A n \in 1..Len(worker[g].called) :
                   n <= Len(worker[g].snap) /\ worker[g].called[n] = worker[g].snap[n]
            /\ (worker[g].pc = "loop" /\ worker[g].i > Len(worker[g].subs))
                   => worker[g].called = worker[g].snap

\* The worker is inside the handler of a subscriber whose Close returned
\* after the snapshot, and a subscriber registered after the snapshot is not
\* part of it.
C18_Witness ==
    /\ Len(worker) = 1
    /\ worker[1].pc = "handler"
    /\ worker[1].subs[worker[1].i] \in hist.closed \ worker[1].late
    /\ \E h \in Range(subscribers["X"]) : h \notin Range(worker[1].snap)

\* The Targets whose process has exited with status zero after a clean read.
Succeeded == {t \in DOMAIN rtask : rtask[t].pc \in {"sendWait", "done"} /\ ~rtask[t].failed}

\* C13: every Target is launched whatever becomes of its siblings (all are
\* started before the collector takes its first result), and when DoAll
\* returns, a Target whose process succeeded beside a failed sibling has been
\* reported with a nil error.
C13_SiblingsUnaffected ==
    /\ doall.pc # "spawn" => \A t \in DOMAIN rtask : rtask[t].pc # "unspawned"
    /\ doall.pc = "returned" =>
          \A t \in Succeeded :
              (\E u \in Failed : u # t) =>
                  \E n \in ResultsOf(t) : ~results[n].err

\* C14: anyMissing returns the manifest's names that are no names of the
\* directory snapshot, each once and no other: none when the directory holds
\* every name of the manifest.
C14_AnyMissing ==
    scan.pc = "returned" =>
        /\ Range(scan.missing) = scan.sfv \ scan.dir
        /\ Len(scan.missing) = Cardinality(scan.sfv \ scan.dir)
        /\ scan.sfv \subseteq scan.dir => scan.missing = <<>>

\* The manifest lists {a, b}, the directory holds only {a}, the call has
\* returned {b}.
C14_Witness ==
    /\ scan.pc = "returned"
    /\ scan.sfv = {"a", "b"}
    /\ scan.dir = {"a"}
    /\ scan.missing = <<"b">>

\* C16: no publish goroutine ever sends on a closed job queue.
C16_NoSendOnClosed == panic # "send on closed channel"

\* C17: once a Stop call has left its wait through `case <-done`, the
\* WaitGroup counts nothing, no publish goroutine is unfinished and every
\* worker has returned.
C17_DoneMeansFinished ==
    \A i \in 1..MaxStops :
        (stops[i].pc \in {"close", "lock", "returned"}
            /\ ~stops[i].noop /\ ~stops[i].timedOut)
        => /\ wg = 0
           /\ \A k \in Kinds, q \in 0..MaxQueues : tasks[k][q] = 0
           /\ \A g \in QueueIds : worker[g].pc = "exit"

\* C20: a handler's error does not stop the dispatch.  handleJob's err holds
\* the error of every handler of the Job that returned one, and the bus comes
\* to rest with every handler entered once per Publish (so also the
\* subscribers after a failing one, and for the Jobs after a failing one) and
\* every error part of an aggregate that run has printed; the Publish calls
\* had returned before, with no result.
C20_ErrorsDoNotStop ==
    /\ [](\A g \in QueueIds : worker[g].err = worker[g].failed)
    /\ [](hist.logged <= hist.errs)
    /\ <>[](Quiescent /\ DeliveredExactly /\ hist.logged = hist.errs)

\* Two subscribers, two Jobs, the first handler returned an error for both
\* Jobs, and both handlers were entered for both.
C20_Witness ==
    /\ Quiescent
    /\ Len(subs) = 2
    /\ hist.published["X"] = 2
    /\ hist.errs >= 2
    /\ hist.logged = hist.errs
    /\ invoked[1] = 2 /\ invoked[2] = 2

C22_StopDrains ==
    StopReturned =>
        /\ \A g \in QueueIds : queues[g].buf = <<>>
        /\ (\A k \in Kinds, q \in 0..MaxQueues : tasks[k][q] = 0) => DeliveredExactly

\* C23: a handler is entered only for Jobs of the kind it subscribed to, so
\* never more often than its kind was published, and a Job of a kind nobody
\* subscribed to enters no handler and raises nothing.
C23_OwnKindOnly ==
    /\ \A g \in QueueIds :
          worker[g].job \in Kinds =>
              \A n \in 1..Len(worker[g].called) :
                  subs[worker[g].called[n]].eventType = worker[g].job
    /\ \A h \in Handles : invoked[h] <= hist.published[subs[h].eventType]
    /\ \A g \in QueueIds :
          (worker[g].job \in Kinds /\ subscribers[worker[g].job] = <<>>)
              => worker[g].pc # "handler" /\ worker[g].err = <<>>
    /\ panic = NoPanic

\* Two subscribers of kind X and none of kind Y; one Job of each kind has
\* been dispatched, and each handler was entered once.
C23_Witness ==
    /\ Quiescent
    /\ Len(subs) = 2
    /\ subs[1].eventType = "X" /\ subs[2].eventType = "X"
    /\ hist.published["X"] = 1 /\ hist.published["Y"] = 1
    /\ invoked[1] = 1 /\ invoked[2] = 1

\* C24: while a handler runs, the worker holds no lock of the registry:
\* whatever the handler calls on the bus (Publish, Subscribe, or the Close
\* of its own subscription, in its two halves) can be completed, and the
\* handler can return.
C24_HandlerMayCallBus ==
    InHandler =>
        /\ ENABLED Publish("X")
        /\ ENABLED Subscribe("X", Len(subs) + 1)
        /\ closes[1].pc = "idle" => ENABLED CloseRead(1, OwnHandle)
        /\ closes[1].pc = "write" => ENABLED CloseWrite(1)
        /\ closes[1].pc = "idle" => ENABLED HandlerReturn(1)

\* The first handler has published a second event, registered a second
\* subscriber and closed its own subscription from inside its callback; it
\* has returned and the worker has dispatched the second Job to the second
\* subscriber alone.
C24_Witness ==
    /\ Quiescent
    /\ hist.published["X"] = 2
    /\ Len(subs) = 2
    /\ 1 \in hist.closed
    /\ invoked[1] = 1 /\ invoked[2] = 1

\* The process is blocked in a write to a full pipe.
ProcBlocked ==
    /\ ~pipe.exited
    /\ pipe.script # <<>>
    /\ pipe.buf[Head(pipe.script)] = PipeCap

\* The task is blocked: in a Read of an empty stream whose write end is
\* open, or in cmd.Wait() for a process that has not exited.
TaskBlocked ==
    /\ ~pipe.exited
    /\ \/ pipe.pc \in Streams /\ pipe.buf[pipe.pc] = 0
       \/ pipe.pc = "wait"

\* C25: the task and its process never block each other: the process is
\* never stuck writing to a full pipe of one stream while the task waits on
\* the other stream or on the exit; and when the task calls cmd.Wait() both
\* pipes have been drained.
C25_NoPipeDeadlock ==
    /\ ~(ProcBlocked /\ TaskBlocked)
    /\ pipe.pc \in {"wait", "done"} => \A s \in Streams : pipe.buf[s] = 0

\* C26: DoAll returns, provided every process it launched exits: its
\* collector has then received exactly len(targets) results, and with no
\* Target it returns nil without having received anything.
C26_DoAllTerminates ==
    /\ <>(doall.pc = "returned")
    /\ [](doall.pc = "returned" => Len(results) = doall.n)
    /\ [](doall.pc = "returned" /\ doall.n = 0 => doall.ret = "nil")

\* DoAll has returned from a call with two Targets, two results received.
C26_Witness ==
    /\ doall.pc = "returned"
    /\ doall.n = 2
    /\ Len(results) = 2

\* C27: FindUnrarable returns a Target and no error for a directory that has
\* a readable manifest, none of the listed files missing and an archive that
\* is not extracted yet; it returns an error when a listed file is missing.
C27_FindUnrarable ==
    find.pc = "returned" =>
        /\ (/\ SfvName \in find.dir
            /\ find.parseOk
            /\ find.items \subseteq find.dir
            /\ FindExt(find.dir, ".rar") # {}
            /\ find.inner \notin find.dir) => find.ret = "target"
        /\ ~(find.items \subseteq find.dir) => find.ret = "error"

\* C28: the worker never handles a nil Job: handleJob is never called with
\* the zero value a receive from the closed queue yields.
C28_NoNilJob ==
    /\ \A g \in QueueIds : worker[g].job # NilJob
    /\ panic # "nil pointer dereference"

\* C29: when DoAll returns, every goroutine it started has finished: none is
\* still running, and none is blocked in a send on resultCh.
C29_NoTaskLeftBehind ==
    doall.pc = "returned" => \A t \in DOMAIN rtask : rtask[t].pc = "done"

====
